---------------------------- MODULE Spec2Model ----------------------------
(***************************************************************************)
(* EmbedLog (include/EmbedLog/EmbedLog.hpp, Types.hpp, Error.hpp).         *)
(*                                                                         *)
(* A logger is constructed from a format template, which the constructor   *)
(* compiles with tokenizeFormat; afterwards log() and setLogLevel() are    *)
(* called in any order.                                                    *)
(*                                                                         *)
(* A std::string is a sequence of one-character strings; the byte 0x1B     *)
(* (written \033 or \u001b in the source) is the element "ESC".  Positions *)
(* are 1-based here and 0-based in the source: the source's                *)
(* `i < format.size()` is `i <= Len(format)`.                              *)
(***************************************************************************)
EXTENDS Integers, Sequences, FiniteSets, TLC

VARIABLES
    format_,     \* EmbedLog::format_
    name_,       \* EmbedLog::name_
    log_level_,  \* EmbedLog::log_level_
    tokens_,     \* EmbedLog::tokens_
    pc,          \* "tokenize": the constructor is inside tokenizeFormat;
                 \* "ready": constructed; "bad_alloc": push_back threw
    i,           \* tokenizeFormat's scan position
    tokens,      \* tokenizeFormat's local vector
    op,          \* the member function called last: "new", "log", "setLogLevel"
    call,        \* the arguments of that call (and the timestamp the source holds)
    ret,         \* the EmbedLogErrorType it returned
    emitted,     \* the print_function_ invocations it made, in order
    tsReads      \* the number of timestamp_function_ invocations it made

vars == <<format_, name_, log_level_, tokens_, pc, i, tokens,
          op, call, ret, emitted, tsReads>>

-----------------------------------------------------------------------------
(* Bounds of the model *)

\* longest template the tokenizer is run on, in characters
MaxFmtLen == 3
\* longest printf-formatted message text handed to log()
MaxMsgLen == 256
\* length of the literal prefix of the long template
PadLen == 250
\* number of tokens the vector can hold before push_back throws std::bad_alloc
MaxTokens == 24

-----------------------------------------------------------------------------
(* Types.hpp *)

Alert    == 0
Critical == 1
Error    == 2
Warning  == 3
Notice   == 4
Info     == 5
Debug    == 6
Trace    == 7
None     == 8

LogLevel == Alert .. None

ESC == "ESC"

\* "\033[1;9<c>m"
Colour(c) == <<ESC, "[", "1", ";", "9", c, "m">>

\* "\033[0m"
Reset == <<ESC, "[", "0", "m">>

logLevelToString(level) ==
    CASE level = Alert    -> Colour("1") \o <<"A","L","E","R","T">> \o Reset \o Reset
      [] level = Critical -> Colour("5") \o <<"C","R","I","T","I","C","A","L">> \o Reset \o Reset
      [] level = Error    -> Colour("1") \o <<"E","R","R","O","R">> \o Reset \o Reset
      [] level = Warning  -> Colour("3") \o <<"W","A","R","N","I","N","G">> \o Reset \o Reset
      [] level = Notice   -> Colour("6") \o <<"N","O","T","I","C","E">> \o Reset \o Reset
      [] level = Info     -> Colour("2") \o <<"I","N","F","O">> \o Reset \o Reset
      [] level = Debug    -> Colour("4") \o <<"D","E","B","U","G">> \o Reset \o Reset
      [] level = Trace    -> Colour("7") \o <<"T","R","A","C","E">> \o Reset \o Reset
      [] level = None     -> <<"N","O","N","E">>
      [] OTHER            -> <<"U","N","K","N","O","W","N">>

\* Token{type, width, literal}
Token(type, width, literal) == [type |-> type, width |-> width, literal |-> literal]

-----------------------------------------------------------------------------
(* EmbedLog::tokenizeFormat *)

\* the switch on tokenChar
tokenTypeOf(tokenChar) ==
    CASE tokenChar = "Y" -> "Year"
      [] tokenChar = "M" -> "Month"
      [] tokenChar = "D" -> "Day"
      [] tokenChar = "h" -> "Hour"
      [] tokenChar = "m" -> "Minute"
      [] tokenChar = "s" -> "Second"
      [] tokenChar = "u" -> "Micro"
      [] tokenChar = "N" -> "Name"
      [] tokenChar = "L" -> "Level"
      [] tokenChar = "T" -> "Text"
      [] OTHER           -> "Literal"

\* runEnd with the inner loop run once at most
runEnd_single(format, k, tokenChar) ==
    IF k <= Len(format) /\ format[k] = tokenChar THEN k + 1 ELSE k

\* while (k < format.size() && format[k] == tokenChar) k++;
\* the value of k the loop ends with: the first position from k on that is
\* past the end or holds another character
runEnd(format, k, tokenChar) ==
    CHOOSE e \in k .. Len(format) + 1 :
        /\ \A j \in k .. e - 1 : format[j] = tokenChar
        /\ ~(e <= Len(format) /\ format[e] = tokenChar)

\* literalEnd with the scan loop run once at most
literalEnd_single(format, k) ==
    IF k <= Len(format) /\ format[k] # "%" THEN k + 1 ELSE k

\* while (i < format.size() && format[i] != '%') i++;
\* the value of i the loop ends with: the first position from k on that is
\* past the end or holds '%'
literalEnd(format, k) ==
    CHOOSE e \in k .. Len(format) + 1 :
        /\ \A j \in k .. e - 1 : format[j] # "%"
        /\ ~(e <= Len(format) /\ format[e] # "%")

\* format.substr(pos, n), pos 1-based
substr(s, pos, n) == SubSeq(s, pos, pos + n - 1)

\* the token built for '%' + a run of tokenChar ending before k
placeholderToken(format, at, k) ==
    LET tokenChar == format[at + 1]
        count     == k - (at + 1)
        type      == tokenTypeOf(tokenChar)
    IN  Token(type, count,
              IF type = "Literal" THEN substr(format, at, k - at) ELSE <<>>)

\* tokens.push_back(t): the vector grows, or the allocation fails and
\* std::bad_alloc leaves tokenizeFormat and the constructor
push_back(t, next_i) ==
    IF Len(tokens) < MaxTokens
    THEN /\ tokens' = Append(tokens, t)
         /\ i' = next_i
         /\ pc' = pc
    ELSE /\ pc' = "bad_alloc"
         /\ UNCHANGED <<tokens, i>>

\* one iteration of the outer loop: format[i] == '%' && format[i + 1] == '%'
tokenizeEscapedPercent ==
    /\ pc = "tokenize"
    /\ i <= Len(format_)
    /\ format_[i] = "%"
    /\ i + 1 <= Len(format_) /\ format_[i + 1] = "%"
    /\ push_back(Token("Literal", 0, <<"%">>), i + 2)
    /\ UNCHANGED <<format_, name_, log_level_, tokens_, op, call, ret, emitted, tsReads>>

\* one iteration of the outer loop: format[i] == '%' followed by another character
tokenizePlaceholder ==
    /\ pc = "tokenize"
    /\ i <= Len(format_)
    /\ format_[i] = "%"
    /\ ~(i + 1 <= Len(format_) /\ format_[i + 1] = "%")
    /\ i + 1 <= Len(format_)
    /\ LET k == runEnd(format_, i + 1, format_[i + 1])
       IN  push_back(placeholderToken(format_, i, k), k)
    /\ UNCHANGED <<format_, name_, log_level_, tokens_, op, call, ret, emitted, tsReads>>

\* one iteration of the outer loop that reaches the literal scan: format[i] is
\* not '%', or it is a '%' that is the last character of the format
tokenizeLiteral ==
    /\ pc = "tokenize"
    /\ i <= Len(format_)
    /\ \/ format_[i] # "%"
       \/ format_[i] = "%" /\ ~(i + 1 <= Len(format_))
    /\ LET start == i
           e     == literalEnd(format_, i)
       IN  push_back(Token("Literal", 0, substr(format_, start, e - start)), e)
    /\ UNCHANGED <<format_, name_, log_level_, tokens_, op, call, ret, emitted, tsReads>>

\* the loop ends, tokenizeFormat returns and the constructor stores the tokens
tokenizeReturn ==
    /\ pc = "tokenize"
    /\ ~(i <= Len(format_))
    /\ tokens_' = tokens
    /\ pc' = "ready"
    /\ UNCHANGED <<format_, name_, log_level_, i, tokens, op, call, ret, emitted, tsReads>>

-----------------------------------------------------------------------------
(* EmbedLog::formatOutput *)

Digits == <<"0", "1", "2", "3", "4", "5", "6", "7", "8", "9">>

\* std::to_string(int), for number >= 0
RECURSIVE to_string_nat(_)
to_string_nat(number) ==
    IF number < 10
    THEN <<Digits[number + 1]>>
    ELSE to_string_nat(number \div 10) \o <<Digits[(number % 10) + 1]>>

\* std::to_string(int)
to_string(number) ==
    IF number < 0 THEN <<"-">> \o to_string_nat(-number) ELSE to_string_nat(number)

\* n copies of the character c
Fill(c, n) == [k \in 1 .. n |-> c]

\* formatNumber without the padding
formatNumber_nopad(number, width) == to_string(number)

\* the lambda formatNumber
formatNumber(number, width) ==
    LET result == to_string(number)
    IN  IF Len(result) < width
        THEN Fill("0", width - Len(result)) \o result
        ELSE result

\* static_cast<int>(effectiveMicro): the value itself below 2^31, which is
\* where every value of the model lies
toInt(v) == v

totalDigits == 6

\* int divisor = 1; for (l = 0; l < n; l++) divisor *= 10;
RECURSIVE divisorOf(_)
divisorOf(n) == IF n <= 0 THEN 1 ELSE 10 * divisorOf(n - 1)

\* effectiveMicro keeping the least significant digits instead
effectiveMicro_low(microseconds, width) ==
    IF width < totalDigits
    THEN microseconds % divisorOf(width)
    ELSE microseconds

\* case TokenType::Micro
effectiveMicro(microseconds, width) ==
    IF width < totalDigits
    THEN microseconds \div divisorOf(totalDigits - width)
    ELSE microseconds

\* "\033[1;97m" + s + "\033[0m"
Bright(s) == Colour("7") \o s \o Reset

\* the body of the switch on token.type: what one token appends to output
renderToken(token, message, ts, levelStr, name) ==
    CASE token.type = "Literal" -> token.literal
      [] token.type = "Year"    ->
            IF token.width = 2
            THEN Bright(formatNumber(ts.year % 100, token.width))
            ELSE Bright(formatNumber(ts.year, token.width))
      [] token.type = "Month"   -> Bright(formatNumber(ts.month, token.width))
      [] token.type = "Day"     -> Bright(formatNumber(ts.day, token.width))
      [] token.type = "Hour"    -> Bright(formatNumber(ts.hours, token.width))
      [] token.type = "Minute"  -> Bright(formatNumber(ts.minutes, token.width))
      [] token.type = "Second"  -> Bright(formatNumber(ts.seconds, token.width))
      [] token.type = "Micro"   ->
            Bright(formatNumber(toInt(effectiveMicro(ts.microseconds, token.width)),
                                token.width))
      [] token.type = "Name"    -> Bright(name)
      [] token.type = "Level"   -> levelStr
      [] token.type = "Text"    -> Reset \o message
      [] OTHER                  -> <<>>

\* renderFrom with each token's text put before the output instead of after
RECURSIVE renderFrom_prepend(_, _, _, _, _, _)
renderFrom_prepend(toks, n, message, ts, levelStr, name) ==
    IF n > Len(toks)
    THEN <<>>
    ELSE renderFrom_prepend(toks, n + 1, message, ts, levelStr, name)
         \o renderToken(toks[n], message, ts, levelStr, name)

\* for (const auto& token : toks) output += ...;  from token n on
RECURSIVE renderFrom(_, _, _, _, _, _)
renderFrom(toks, n, message, ts, levelStr, name) ==
    IF n > Len(toks)
    THEN <<>>
    ELSE renderToken(toks[n], message, ts, levelStr, name)
         \o renderFrom(toks, n + 1, message, ts, levelStr, name)

formatOutput(message, ts, levelStr) ==
    renderFrom(tokens_, 1, message, ts, levelStr, name_)

-----------------------------------------------------------------------------
(* EmbedLog::log and EmbedLog::setLogLevel *)

\* char buffer[256]
BufSize == 256

\* the limit of message.size() and of output.size()
MaxOut == 255

\* snprintf(buffer, sizeof(buffer), fmt, args...); std::string message(buffer):
\* `text` is what the directives of fmt expand to with args; the buffer keeps
\* its first sizeof(buffer) - 1 characters
snprintf(size, text) ==
    IF Len(text) > size - 1 THEN SubSeq(text, 1, size - 1) ELSE text

\* level > log_level_, mutated: off by one, the next less urgent level passes
belowThreshold_off(level, threshold) == level > threshold + 1

\* level > log_level_
belowThreshold(level, threshold) == level > threshold

\* output.size() > 255, mutated: off by one
outputTooLong_off(output) == Len(output) > MaxOut + 1

\* output.size() > 255
outputTooLong(output) == Len(output) > MaxOut

\* print_function_(output, level), mutated: the threshold is passed as the level
printCall_threshold(output, level) == <<[str |-> output, level |-> log_level_]>>

\* print_function_(output, level): the invocations of the sink this makes
printCall(output, level) == <<[str |-> output, level |-> level]>>

\* what a log(level, fmt, args...) call returns and invokes; ts is the value
\* timestamp_function_ returns when it is called
logOutcome(level, text, ts) ==
    IF belowThreshold(level, log_level_)
    THEN [ret |-> "LogLevelError", emitted |-> <<>>, tsReads |-> 0]
    ELSE LET message == snprintf(BufSize, text)
         IN  IF Len(message) > MaxOut
             THEN [ret |-> "OutputLengthError", emitted |-> <<>>, tsReads |-> 0]
             ELSE LET levelStr == logLevelToString(level)
                      output   == formatOutput(message, ts, levelStr)
                  IN  IF outputTooLong(output)
                      THEN [ret |-> "OutputLengthError", emitted |-> <<>>,
                            tsReads |-> 1]
                      ELSE [ret |-> "Success", emitted |-> printCall(output, level),
                            tsReads |-> 1]

\* log, mutated: a successful call leaves the threshold at the call's level
log_keeps_level(level, text, ts) ==
    /\ pc = "ready"
    /\ \E o \in {logOutcome(level, text, ts)} :
           /\ ret' = o.ret
           /\ emitted' = o.emitted
           /\ tsReads' = o.tsReads
           /\ log_level_' = IF o.ret = "Success" THEN level ELSE log_level_
    /\ op' = "log"
    /\ call' = [level |-> level, text |-> text, ts |-> ts]
    /\ UNCHANGED <<format_, name_, tokens_, pc, i, tokens>>

\* EmbedLog::log(level, fmt, args...) const noexcept
log(level, text, ts) ==
    /\ pc = "ready"
    /\ \E o \in {logOutcome(level, text, ts)} :
           /\ ret' = o.ret
           /\ emitted' = o.emitted
           /\ tsReads' = o.tsReads
    /\ op' = "log"
    /\ call' = [level |-> level, text |-> text, ts |-> ts]
    /\ UNCHANGED <<format_, name_, log_level_, tokens_, pc, i, tokens>>

NoCall == [level |-> None, text |-> <<>>, ts |-> <<>>]

\* EmbedLog::setLogLevel(level) noexcept
setLogLevel(level) ==
    /\ pc = "ready"
    /\ log_level_' = level
    /\ op' = "setLogLevel"
    /\ call' = [level |-> level, text |-> <<>>, ts |-> <<>>]
    /\ ret' = "void"
    /\ emitted' = <<>>
    /\ tsReads' = 0
    /\ UNCHANGED <<format_, name_, tokens_, pc, i, tokens>>

-----------------------------------------------------------------------------
(* The inputs *)

\* the characters templates are built from: '%', the ten placeholder
\* characters and one character that is none of them
Alphabet == {"%", "Y", "M", "D", "h", "m", "s", "u", "N", "L", "T", "x"}

\* every template of at most MaxFmtLen characters
Templates == UNION {[1 .. n -> Alphabet] : n \in 0 .. MaxFmtLen}

\* EmbedLog.hpp: defaultFormat
defaultFormat ==
    <<"[", "%","Y","Y","Y","Y", ":", "%","M","M", ":", "%","D","D", ":",
      "%","h","h", ":", "%","m","m", ":", "%","s","s", ".",
      "%","u","u","u","u","u","u", "]", " ", "[", "%","N", "]", " ",
      "[", "%","L", "]", " ", "-", " ", "%","T">>

\* the templates loggers are constructed with
LogTemplates ==
    { defaultFormat,
      <<"%", "T">>,
      <<"[", "%", "L", "]", "%", "%">>,
      <<>>,
      <<"%">>,
      Fill("=", PadLen) \o <<"%", "T">> }

\* the name loggers are constructed with
LoggerName == <<"n", "a", "v">>

\* the lengths of the printf-formatted texts: short ones, and the lengths from
\* the bound on
MsgLens == {1, 2} \cup (MaxOut .. MaxMsgLen)

Messages == {Fill("x", n) : n \in MsgLens} \cup {<<"b","o","o","t"," ","o","k">>}

\* what the timestamp source returns
TimeStamps ==
    { [microseconds |-> 123456, seconds |-> 3, minutes |-> 5, hours |-> 9,
       day |-> 2, month |-> 1, year |-> 2025],
      [microseconds |-> 7, seconds |-> 59, minutes |-> 59, hours |-> 23,
       day |-> 31, month |-> 12, year |-> 2005] }

-----------------------------------------------------------------------------
(* Specifications *)

\* the members after the constructor's initialiser list, tokenizeFormat entered
Constructed(format, name) ==
    /\ format_ = format
    /\ name_ = name
    /\ log_level_ = None
    /\ tokens_ = <<>>
    /\ pc = "tokenize"
    /\ i = 1
    /\ tokens = <<>>
    /\ op = "new"
    /\ call = NoCall
    /\ ret = "void"
    /\ emitted = <<>>
    /\ tsReads = 0

Init == \E format \in LogTemplates : Constructed(format, LoggerName)

tokenizeFormat ==
    \/ tokenizeEscapedPercent
    \/ tokenizePlaceholder
    \/ tokenizeLiteral
    \/ tokenizeReturn

Next ==
    \/ tokenizeFormat
    \/ \E level \in LogLevel, text \in Messages, ts \in TimeStamps :
          log(level, text, ts)
    \/ \E level \in LogLevel : setLogLevel(level)

\* a logger's life: construction, then any sequence of log and setLogLevel
Spec == Init /\ [][Next]_vars

TokInit == \E format \in Templates : Constructed(format, LoggerName)

\* the tokenizer alone, on every template of the alphabet
TokSpec == TokInit /\ [][tokenizeFormat]_vars

\* widest placeholder of the one-placeholder templates
MaxWidth == 6

\* the characters of the numeric placeholders
NumericChars == {"Y", "M", "D", "h", "m", "s", "u"}

\* the template of the end-to-end example
exampleFormat ==
    <<"[", "%","h","h", ":", "%","m","m", ":", "%","s","s", "]", " ",
      "[", "%","L", "]", " ", "%","T">>

\* the templates rendering is examined on: every numeric placeholder alone at
\* every width, the default template, the example, and one with an escaped
\* '%', an unknown escape, the name and widths other than the usual
RenderTemplates ==
    {<<"%">> \o Fill(c, w) : c \in NumericChars, w \in 1 .. MaxWidth}
    \cup { defaultFormat,
           exampleFormat,
           <<"%","%", "%","x","x", "%","N","N", "@", "%","Y","Y", "-", "%","u","u","u",
             "%","T","T", "%","L">> }

\* the snapshots the timestamp source returns: small and large fields, years
\* whose last two digits need padding, microseconds around the powers of ten
RenderTimeStamps ==
    { [microseconds |-> 123456, seconds |-> 3, minutes |-> 5, hours |-> 9,
       day |-> 2, month |-> 1, year |-> 2025],
      [microseconds |-> 7, seconds |-> 59, minutes |-> 59, hours |-> 23,
       day |-> 31, month |-> 12, year |-> 2005],
      [microseconds |-> 999999, seconds |-> 0, minutes |-> 0, hours |-> 0,
       day |-> 10, month |-> 10, year |-> 65535],
      [microseconds |-> 0, seconds |-> 10, minutes |-> 9, hours |-> 12,
       day |-> 1, month |-> 9, year |-> 0],
      [microseconds |-> 99999, seconds |-> 255, minutes |-> 100, hours |-> 99,
       day |-> 255, month |-> 200, year |-> 1999],
      [microseconds |-> 100000, seconds |-> 30, minutes |-> 30, hours |-> 6,
       day |-> 15, month |-> 6, year |-> 2100],
      [microseconds |-> 678949, seconds |-> 1, minutes |-> 1, hours |-> 1,
       day |-> 9, month |-> 2, year |-> 987] }

RenderMessages == { <<"b","o","o","t"," ","o","k">>, <<"1","0","0","%">> }

RenderInit == \E format \in RenderTemplates : Constructed(format, LoggerName)

RenderNext ==
    \/ tokenizeFormat
    \/ \E level \in LogLevel, text \in RenderMessages, ts \in RenderTimeStamps :
          log(level, text, ts)

\* loggers at the threshold they are constructed with, rendering every call
RenderSpec == RenderInit /\ [][RenderNext]_vars

-----------------------------------------------------------------------------
(* The logger's claims, under Spec *)

\* the message log() renders for the last call: what snprintf left in the buffer
MessageOf(c) == snprintf(BufSize, c.text)

\* the string formatOutput renders for a call
RenderedFor(c) == formatOutput(MessageOf(c), c.ts, logLevelToString(c.level))

\* C1: a log call whose level is less urgent than the threshold (level >
\* log_level_) returns LogLevelError, invokes neither the sink nor the
\* timestamp source, and leaves the threshold and the token sequence as they
\* were.
C1_BelowThresholdRejected ==
    [][ (op' = "log" /\ call'.level > log_level_)
          => /\ ret' = "LogLevelError"
             /\ emitted' = <<>>
             /\ tsReads' = 0
             /\ log_level_' = log_level_
             /\ tokens_' = tokens_ ]_vars

\* C1's case: threshold Warning, a Debug call, rejected
C1_Witness ==
    /\ op = "log"
    /\ log_level_ = Warning
    /\ call.level = Debug
    /\ ret = "LogLevelError"

\* C2: every log call invokes the sink exactly once when it returns Success,
\* with the call's level and the string rendered for the call, and not at all
\* when it returns LogLevelError or OutputLengthError; nothing else invokes it.
C2_SinkOncePerSuccess ==
    /\ op = "log" =>
          /\ ret \in {"Success", "LogLevelError", "OutputLengthError"}
          /\ ret = "Success" =>
                emitted = <<[str |-> RenderedFor(call), level |-> call.level]>>
          /\ ret # "Success" => emitted = <<>>
    /\ op # "log" => emitted = <<>>

\* C2's case: a successful call at a level other than the threshold
C2_Witness ==
    /\ op = "log"
    /\ ret = "Success"
    /\ Len(emitted) = 1
    /\ call.level # log_level_
    /\ Len(emitted[1].str) > 0

\* C3: no string passed to the sink is longer than 255 characters, and a call
\* that passes the threshold and whose rendering of the untruncated message is
\* longer than 255 returns OutputLengthError without invoking the sink.
C3_OutputBounded ==
    /\ \A k \in 1 .. Len(emitted) : Len(emitted[k].str) <= 255
    /\ ( /\ op = "log"
         /\ ~(call.level > log_level_)
         /\ Len(formatOutput(call.text, call.ts, logLevelToString(call.level))) > 255 )
       => (ret = "OutputLengthError" /\ emitted = <<>>)

\* C3's case: a two-character message that the template's literals push to 256
C3_Witness ==
    /\ op = "log"
    /\ ret = "OutputLengthError"
    /\ tsReads = 1
    /\ Len(call.text) = 2
    /\ Len(RenderedFor(call)) = 256

\* C4: a call that passes the threshold and whose formatted message is 256
\* characters or longer returns OutputLengthError and does not invoke the sink,
\* whatever the template.
C4_LongMessageRejected ==
    ( /\ op = "log"
      /\ ~(call.level > log_level_)
      /\ Len(call.text) >= 256 )
    => (ret = "OutputLengthError" /\ emitted = <<>>)

\* C5: under the template "%T", a call that passes the threshold with a
\* message of exactly 255 characters returns Success and invokes the sink once.
C5_Message255Succeeds ==
    ( /\ op = "log"
      /\ format_ = <<"%", "T">>
      /\ ~(call.level > log_level_)
      /\ Len(call.text) = 255 )
    => (ret = "Success" /\ Len(emitted) = 1)

\* C7: while the threshold is None, no log call invokes the sink.
C7_NoneLogsNothing ==
    (op = "log" /\ log_level_ = None) => emitted = <<>>

\* C10: log changes neither the threshold, the name nor the token sequence;
\* setLogLevel changes the threshold alone and invokes neither the sink nor the
\* timestamp source; and what a log call returns and sends is what the same
\* call returns and sends in the state it leaves, whatever calls came before.
C10_StatelessButThreshold ==
    [][ /\ op' = "log" =>
              /\ log_level_' = log_level_
              /\ name_' = name_
              /\ tokens_' = tokens_
              /\ format_' = format_
              /\ [ret |-> ret', emitted |-> emitted', tsReads |-> tsReads']
                    = (logOutcome(call.level, call.text, call.ts))'
        /\ op' = "setLogLevel" =>
              /\ log_level_' = call'.level
              /\ name_' = name_
              /\ tokens_' = tokens_
              /\ format_' = format_
              /\ emitted' = <<>>
              /\ tsReads' = 0 ]_vars

\* C10's case: a threshold set by setLogLevel, then a successful call at
\* another level
C10_Witness ==
    /\ op = "log"
    /\ ret = "Success"
    /\ log_level_ = Info
    /\ call.level = Alert

-----------------------------------------------------------------------------
(* The tokenizer's claims, under TokSpec *)

\* C6: tokenizeFormat returns for every template, and for a template that ends
\* in a '%' that no '%' precedes, the last token it returns is Literal "%".
C6_TokenizeTotal ==
    /\ pc # "bad_alloc"
    /\ ( /\ pc = "ready"
         /\ Len(format_) >= 1
         /\ format_[Len(format_)] = "%"
         /\ (Len(format_) = 1 \/ format_[Len(format_) - 1] # "%") )
       => ( /\ Len(tokens_) >= 1
            /\ tokens_[Len(tokens_)] = Token("Literal", 0, <<"%">>) )

\* the placeholder table of the template syntax
PlaceholderKind(c) ==
    CASE c = "Y" -> "Year"   [] c = "M" -> "Month"  [] c = "D" -> "Day"
      [] c = "h" -> "Hour"   [] c = "m" -> "Minute" [] c = "s" -> "Second"
      [] c = "u" -> "Micro"  [] c = "N" -> "Name"   [] c = "L" -> "Level"
      [] c = "T" -> "Text"

PlaceholderChars == {"Y", "M", "D", "h", "m", "s", "u", "N", "L", "T"}

\* the length of the maximal run of c that starts at position p of f
RunLength(f, p, c) ==
    CHOOSE n \in 1 .. Len(f) - p + 1 :
        /\ \A j \in 0 .. n - 1 : f[p + j] = c
        /\ (p + n > Len(f) \/ f[p + n] # c)

\* C8: when the scan stands on a '%' that a character c follows, one token is
\* appended and the scan moves past it: for c = '%' the token is Literal "%"
\* and the scan moves two characters; otherwise the scan moves past '%' and
\* the maximal run of c, and the token is the placeholder of c's kind with the
\* run length as width when c is a placeholder character, and else a Literal
\* holding '%' and the run.
C8_PlaceholderRun ==
    [][ ( /\ pc = "tokenize"
          /\ i + 1 <= Len(format_)
          /\ format_[i] = "%" )
        => LET c   == format_[i + 1]
               run == RunLength(format_, i + 1, c)
               new == tokens'[Len(tokens')]
           IN  /\ Len(tokens') = Len(tokens) + 1
               /\ SubSeq(tokens', 1, Len(tokens)) = tokens
               /\ IF c = "%"
                  THEN new = Token("Literal", 0, <<"%">>) /\ i' = i + 2
                  ELSE /\ i' = i + 1 + run
                       /\ IF c \in PlaceholderChars
                          THEN /\ new.type = PlaceholderKind(c)
                               /\ new.width = run
                          ELSE /\ new.type = "Literal"
                               /\ new.literal = <<"%">> \o Fill(c, run) ]_vars

\* C8's case: "%YY" compiled to Year with width 2
C8_Witness ==
    /\ pc = "ready"
    /\ format_ = <<"%", "Y", "Y">>
    /\ tokens_ = <<Token("Year", 2, <<>>)>>

NoPercent(f) == \A k \in 1 .. Len(f) : f[k] # "%"

\* C9 as stated: every template without '%', the empty one included, compiles
\* to exactly one token, a Literal holding the whole template.
C9_NoPercentOneLiteral ==
    (pc = "ready" /\ NoPercent(format_))
    => tokens_ = <<Token("Literal", 0, format_)>>

\* C9 amended: every non-empty template without '%' compiles to exactly one
\* token, a Literal holding the whole template; the empty template compiles to
\* no token.
C9_NoPercentOneLiteralUnlessEmpty ==
    (pc = "ready" /\ NoPercent(format_))
    => IF Len(format_) = 0
       THEN tokens_ = <<>>
       ELSE tokens_ = <<Token("Literal", 0, format_)>>

\* C9's case: a three-character template without '%' compiled to one Literal
C9_Witness ==
    /\ pc = "ready"
    /\ format_ = <<"x", "Y", "x">>
    /\ tokens_ = <<Token("Literal", 0, <<"x", "Y", "x">>)>>

-----------------------------------------------------------------------------
(* The renderer's claims, under RenderSpec *)

\* whether position k of s lies in a styling escape: after an ESC and not
\* after the 'm' that ends it
InEscape(s, k) ==
    \E j \in 1 .. k : s[j] = ESC /\ \A l \in j .. k - 1 : s[l] # "m"

\* s with its styling escapes ("ESC[...m") removed
StripStyle(s) ==
    LET kept == {k \in 1 .. Len(s) : ~InEscape(s, k)}
    IN  [n \in 1 .. Cardinality(kept) |->
            s[CHOOSE k \in kept : Cardinality({j \in kept : j <= k}) = n]]

Pow10(n) == CASE n = 0 -> 1 [] n = 1 -> 10 [] n = 2 -> 100 [] n = 3 -> 1000
              [] n = 4 -> 10000 [] n = 5 -> 100000 [] n = 6 -> 1000000
              [] n = 7 -> 10000000 [] n = 8 -> 100000000 [] n = 9 -> 1000000000

\* the digit character of weight 10^e in the decimal writing of v
DigitAt(v, e) == Digits[((v \div Pow10(e)) % 10) + 1]

\* the number of digits of the decimal writing of v
NumDigits(v) == CHOOSE d \in 1 .. 9 : v < Pow10(d) /\ (d = 1 \/ v >= Pow10(d - 1))

\* the decimal writing of v, left-padded with '0' to w digits
Padded(v, w) ==
    LET d == IF NumDigits(v) > w THEN NumDigits(v) ELSE w
    IN  [k \in 1 .. d |-> IF d - k > 8 THEN "0" ELSE DigitAt(v, d - k)]

\* the text the last call sent to the sink, styling removed
SentPlain == StripStyle(emitted[1].str)

\* C11: a Microsecond placeholder of width w < 6 renders, for a microsecond
\* value v in 0..999999, the w most significant digits of v written with six
\* digits (v = 123456, w = 3 gives "123"): floor(v / 10^(6-w)) zero-padded to
\* w digits; at width 6 it renders the six digits of v.
C11_MicroTruncates ==
    \A w \in 1 .. 6 :
        ( /\ op = "log" /\ ret = "Success"
          /\ tokens_ = <<Token("Micro", w, <<>>)>>
          /\ call.ts.microseconds \in 0 .. 999999 )
        => /\ SentPlain = [k \in 1 .. w |-> DigitAt(call.ts.microseconds, 6 - k)]
           /\ SentPlain = Padded(call.ts.microseconds \div Pow10(6 - w), w)

\* C11's case: 123456 microseconds under "%uuu" renders "123"
C11_Witness ==
    /\ op = "log" /\ ret = "Success"
    /\ format_ = <<"%", "u", "u", "u">>
    /\ call.ts.microseconds = 123456
    /\ SentPlain = <<"1", "2", "3">>

\* the timestamp field a numeric placeholder kind stands for
FieldOf(ts, kind) ==
    CASE kind = "Year"   -> ts.year
      [] kind = "Month"  -> ts.month
      [] kind = "Day"    -> ts.day
      [] kind = "Hour"   -> ts.hours
      [] kind = "Minute" -> ts.minutes
      [] kind = "Second" -> ts.seconds

DateTimeKinds == {"Year", "Month", "Day", "Hour", "Minute", "Second"}

\* what a date/time placeholder of a kind and width shows of a snapshot: the
\* field zero-padded to the width, the year modulo 100 at width 2
DateTimeText(ts, kind, w) ==
    IF kind = "Year" /\ w = 2
    THEN Padded(ts.year % 100, 2)
    ELSE Padded(FieldOf(ts, kind), w)

\* C12: a Year, Month, Day, Hour, Minute or Second placeholder of width w
\* renders the decimal value of its timestamp field left-padded with '0' to w
\* digits, except that Year at width 2 renders the year modulo 100 padded to
\* two digits (2025 gives "25" at width 2 and "2025" at width 4, 2005 gives
\* "05" at width 2).
C12_DateTimePadded ==
    ( /\ op = "log" /\ ret = "Success"
      /\ Len(tokens_) = 1
      /\ tokens_[1].type \in DateTimeKinds )
    => SentPlain = DateTimeText(call.ts, tokens_[1].type, tokens_[1].width)

\* C12's case: the year 2005 under "%YY" renders "05"
C12_Witness ==
    /\ op = "log" /\ ret = "Success"
    /\ format_ = <<"%", "Y", "Y">>
    /\ call.ts.year = 2005
    /\ SentPlain = <<"0", "5">>

\* the severity labels without styling
LevelLabel(level) ==
    CASE level = Alert    -> <<"A","L","E","R","T">>
      [] level = Critical -> <<"C","R","I","T","I","C","A","L">>
      [] level = Error    -> <<"E","R","R","O","R">>
      [] level = Warning  -> <<"W","A","R","N","I","N","G">>
      [] level = Notice   -> <<"N","O","T","I","C","E">>
      [] level = Info     -> <<"I","N","F","O">>
      [] level = Debug    -> <<"D","E","B","U","G">>
      [] level = Trace    -> <<"T","R","A","C","E">>
      [] level = None     -> <<"N","O","N","E">>

\* the value a token stands for in a call c of a logger named name
TokenValue(token, c, name) ==
    CASE token.type = "Literal"      -> token.literal
      [] token.type \in DateTimeKinds -> DateTimeText(c.ts, token.type, token.width)
      [] token.type = "Micro"        ->
            IF token.width < 6
            THEN Padded(c.ts.microseconds \div Pow10(6 - token.width), token.width)
            ELSE Padded(c.ts.microseconds, token.width)
      [] token.type = "Name"         -> name
      [] token.type = "Level"        -> LevelLabel(c.level)
      [] token.type = "Text"         -> c.text

\* the values of the tokens from token n on, concatenated in template order
RECURSIVE ValuesFrom(_, _, _, _)
ValuesFrom(toks, n, c, name) ==
    IF n > Len(toks)
    THEN <<>>
    ELSE TokenValue(toks[n], c, name) \o ValuesFrom(toks, n + 1, c, name)

\* C13: the string a successful log call sends to the sink is, with the
\* styling escapes removed, the concatenation in template order of the values
\* of the tokens: Literal text, the numeric fields of the call's timestamp,
\* the logger name, the label of the call's level and the formatted message.
C13_RenderConcatenates ==
    (op = "log" /\ ret = "Success")
    => /\ Len(emitted) = 1
       /\ SentPlain = ValuesFrom(tokens_, 1, call, name_)

\* C13's case: "[%hh:%mm:%ss] [%L] %T" at 09:05:03, Info, "boot ok"
C13_Witness ==
    /\ op = "log" /\ ret = "Success"
    /\ format_ = exampleFormat
    /\ call.ts.hours = 9 /\ call.ts.minutes = 5 /\ call.ts.seconds = 3
    /\ call.level = Info
    /\ call.text = <<"b","o","o","t"," ","o","k">>
    /\ SentPlain = <<"[","0","9",":","0","5",":","0","3","]"," ",
                     "[","I","N","F","O","]"," ","b","o","o","t"," ","o","k">>

=============================================================================
